---- MODULE Spec2Model ----
(***************************************************************************)
(* Model of the stub FEM API (femApi.cpp, ExcaliburFemClient.cpp,          *)
(* FemApiError.cpp) and of its Python binding (fem_api_wrapper.c).         *)
(*                                                                         *)
(* The program state is the process-wide parameter store int_params, the   *)
(* process-wide last-error pair of FemApiError, the heap of                *)
(* ExcaliburFemClient objects and the Fem structures wrapped in capsules.  *)
(* Every action is one call of a function of the binding's method table    *)
(* (or the capsule destructor), including the calls it makes into the      *)
(* core API.                                                               *)
(***************************************************************************)
EXTENDS Integers, Sequences, FiniteSets, TLC

VARIABLES
    int_params,     \* femApi.cpp: std::map<int, std::vector<int> >, as a function
    error_string_,  \* FemApiError::error_string_, a sequence of text tokens
    error_code_,    \* FemApiError::error_code_
    clients,        \* heap of ExcaliburFemClient objects: address -> [alive, id_]
    fems,           \* the Fem structures malloc()ed by _initialise, in order
    last,           \* the most recent call of the binding and what it returned
    written,        \* history: per parameter id, the values last handed to femSetInt
    writer,         \* history: per parameter id, the capsule whose set_int wrote it last
    lastFail        \* history: the most recent failing call of the core API

vars == <<int_params, error_string_, error_code_, clients, fems, last, written, writer,
          lastFail>>

----------------------------------------------------------------------------
(* Bounds of the model *)

MaxFems == 2        \* number of successful initialise calls in a run
MaxLen == 2         \* longest list handed to set_int

(* Program constants *)

FEM_RTN_OK == 0
FEM_RTN_UNKNOWNOPID == 1
FEM_OP_STARTACQUISITION == 1
FEM_OP_STOPACQUISITION == 2
FEM_OP_LOADPIXELCONFIG == 3
FEM_OP_FREEALLFRAMES == 4
FEM_OP_LOADDACCONFIG == 5
FEM_OP_FEINIT == 6
FEM_OP_REBOOT == 7
IllegalIdCode == 30000
INT_MAX == 2147483647
INT_MIN == -INT_MAX - 1
NULL == 0

----------------------------------------------------------------------------
(* Text.  A message is a sequence of tokens; a literal of the source is one *)
(* token and an integer streamed with operator<< is its decimal digits,     *)
(* one token per character.                                                 *)

DigitChar(d) ==
    CASE d = 0 -> "0" [] d = 1 -> "1" [] d = 2 -> "2" [] d = 3 -> "3"
      [] d = 4 -> "4" [] d = 5 -> "5" [] d = 6 -> "6" [] d = 7 -> "7"
      [] d = 8 -> "8" [] d = 9 -> "9"

RECURSIVE Digits(_)
Digits(n) == IF n < 10 THEN <<DigitChar(n)>>
             ELSE Append(Digits(n \div 10), DigitChar(n % 10))

\* std::ostream << int
Decimal(n) == IF n < 0 THEN <<"-">> \o Digits(-n) ELSE Digits(n)

\* does text t occur in message m as a contiguous run of tokens
Contains(m, t) ==
    \E k \in 0..(Len(m) - Len(t)) : SubSeq(m, k + 1, k + Len(t)) = t

----------------------------------------------------------------------------
(* ExcaliburFemClient *)

\* mutant: the range check is off by one
ClientCtor_OffByOne(femNumber) ==
    [threw |-> femNumber < -1,
     id_   |-> femNumber,
     which |-> IllegalIdCode,
     what  |-> "Illegal ID specified"]

\* the constructor: throws FemClientException(30000, ...) for a negative id
ClientCtor(femNumber) ==
    [threw |-> femNumber < 0,
     id_   |-> femNumber,
     which |-> IllegalIdCode,
     what  |-> "Illegal ID specified"]

\* mutant: get_id answers from the wrong value
Client_get_id_Zero(obj) == 0

\* ExcaliburFemClient::get_id
Client_get_id(obj) == obj.id_

----------------------------------------------------------------------------
(* FemApiError: Set(code) stores the code at once; the destructor of the   *)
(* temporary stores the streamed text at the end of the full expression.   *)

\* mutant: Set(code) forgets the code
FemApiError_SetCode_NoCode(code, text) == [code |-> 0, str |-> text]

\* FemApiError().Set(code) << ... ;
FemApiError_SetCode(code, text) == [code |-> code, str |-> text]

\* FemApiError().Set() << ... ;   (the code is not an argument: it stays)
FemApiError_Set(oldCode, text) == [code |-> oldCode, str |-> text]

----------------------------------------------------------------------------
(* Core API, femApi.cpp *)

FreeAddrs(cl) == {a \in DOMAIN cl : ~cl[a].alive}

InitMsg(femNumber, what) ==
    <<"Error trying to initialise FEM id ">> \o Decimal(femNumber) \o <<": ", what>>

\* femInitialise with config->femNumber, the new object placed at addr
femInitialise(cl, code, str, femNumber, addr) ==
    LET c == ClientCtor(femNumber) IN
    IF c.threw
    THEN LET e == FemApiError_SetCode(c.which, InitMsg(femNumber, c.what)) IN
         [handle |-> NULL, clients |-> cl, code |-> e.code, str |-> e.str]
    ELSE [handle |-> addr,
          clients |-> [cl EXCEPT ![addr] = [alive |-> TRUE, id_ |-> c.id_]],
          code |-> code, str |-> str]

\* femGetId
femGetId(cl, handle) == Client_get_id(cl[handle])

\* mutant: closing releases every client object built with the same identifier
femClose_SameId(cl, handle) ==
    [a \in DOMAIN cl |->
       IF cl[a].id_ = cl[handle].id_ THEN [cl[a] EXCEPT !.alive = FALSE] ELSE cl[a]]

\* femClose: delete theFem
femClose(cl, handle) == [cl EXCEPT ![handle].alive = FALSE]

\* femErrorMsg / femErrorCode
femErrorMsg == error_string_
femErrorCode == error_code_

\* value[i] = id + i: the sum is formed in size_t and stored into an int, so
\* it is id + i reduced to 32 bits (two's complement).  i is a small index.
IntAdd(id, i) ==
    IF id > INT_MAX - i THEN (id - INT_MAX) + (i - 1) + INT_MIN ELSE id + i

\* mutant: the default sequence starts one too high
femGetInt_DefaultPlusOne(params, id, size, over) ==
    [rc |-> FEM_RTN_OK,
     value |-> [i \in 1..size |->
                  IF id \in DOMAIN params
                  THEN IF i <= Len(params[id]) THEN params[id][i] ELSE over[i]
                  ELSE IntAdd(id, i)]]

\* mutant: every position reads the first stored value
femGetInt_FirstOnly(params, id, size, over) ==
    [rc |-> FEM_RTN_OK,
     value |-> [i \in 1..size |->
                  IF id \in DOMAIN params
                  THEN IF i <= Len(params[id]) THEN params[id][1] ELSE over[i]
                  ELSE IntAdd(id, i - 1)]]

\* mutant: the store is never consulted, every read is the default sequence
femGetInt_NoStore(params, id, size, over) ==
    [rc |-> FEM_RTN_OK, value |-> [i \in 1..size |-> IntAdd(id, i - 1)]]

\* femGetInt: the values written to value[0..size-1] and the status.  Reading
\* int_params[id][i] for i past the stored vector is undefined behaviour: the
\* values found there are over[i], chosen by the caller of this operator.
femGetInt(params, id, size, over) ==
    [rc |-> FEM_RTN_OK,
     value |-> [i \in 1..size |->
                  IF id \in DOMAIN params
                  THEN IF i <= Len(params[id]) THEN params[id][i] ELSE over[i]
                  ELSE IntAdd(id, i - 1)]]

\* the indices femGetInt reads past the end of the stored vector
OverRead(params, id, size) ==
    IF id \in DOMAIN params THEN (Len(params[id]) + 1)..size ELSE {}

\* mutant: set appends to the stored vector instead of replacing it
femSetInt_Append(params, id, size, value) ==
    [rc |-> FEM_RTN_OK,
     params |-> [q \in (DOMAIN params) \cup {id} |->
                   IF q # id THEN params[q]
                   ELSE IF id \in DOMAIN params THEN params[id] \o SubSeq(value, 1, size)
                   ELSE SubSeq(value, 1, size)]]

\* femSetInt: int_params[id] = std::vector<int>(value, value + size)
femSetInt(params, id, size, value) ==
    [rc |-> FEM_RTN_OK,
     params |-> [q \in (DOMAIN params) \cup {id} |->
                   IF q = id THEN SubSeq(value, 1, size) ELSE params[q]]]

CmdMsg(id) == <<"femCmd: illegal command ID: ">> \o Decimal(id)

\* mutant: the switch lacks the case label of the last command
KnownCommands_NoReboot ==
    {FEM_OP_STARTACQUISITION, FEM_OP_STOPACQUISITION, FEM_OP_LOADPIXELCONFIG,
     FEM_OP_FREEALLFRAMES, FEM_OP_LOADDACCONFIG, FEM_OP_FEINIT}

\* the case labels of the switch in femCmd
KnownCommands ==
    {FEM_OP_STARTACQUISITION, FEM_OP_STOPACQUISITION, FEM_OP_LOADPIXELCONFIG,
     FEM_OP_FREEALLFRAMES, FEM_OP_LOADDACCONFIG, FEM_OP_FEINIT, FEM_OP_REBOOT}

\* femCmd: the status and the last-error pair it leaves
femCmd(code, str, id) ==
    IF id \in KnownCommands
    THEN [rc |-> FEM_RTN_OK, code |-> code, str |-> str]
    ELSE LET e == FemApiError_Set(code, CmdMsg(id)) IN
         [rc |-> FEM_RTN_UNKNOWNOPID, code |-> e.code, str |-> e.str]

----------------------------------------------------------------------------
(* Python values handed to the binding: [t, v, items].  t is the type      *)
(* ("int", "list" or "str"), v the value of an int, items the elements of  *)
(* a list, each again [t, v].                                              *)

PyInt(v) == [t |-> "int", v |-> v, items |-> <<>>]
PyStr == [t |-> "str", v |-> 0, items |-> <<>>]
PyList(items) == [t |-> "list", v |-> 0, items |-> items]
ItemInt(v) == [t |-> "int", v |-> v]
ItemStr == [t |-> "str", v |-> 0]

PyInt_Check(obj) == obj.t = "int"
PyList_Check(obj) == obj.t = "list"
\* PyInt_AsLong: -1, with a TypeError pending, for an object that is no integer
PyInt_AsLong(obj) == IF obj.t = "int" THEN obj.v ELSE -1

\* malloc(size * sizeof(int)): for size 0 the C library may return NULL or not
MallocOk(size) == IF size = 0 THEN {TRUE, FALSE} ELSE {TRUE}

\* _validate_ptr_and_handle: the test of the wrapped handle
ValidHandle(fem) == fem.handle # NULL

\* mutant: close clears the identifier, not the wrapped handle
CloseFem_ClearNumber(fem) == [fem EXCEPT !.femNumber = 0]

\* mutant: close leaves the wrapped handle in place
CloseFem_Keep(fem) == fem

\* _close: fem_ptr->handle = NULL
CloseFem(fem) == [fem EXCEPT !.handle = NULL]

\* _validate_ptr_and_handle: the message it raises
NullHandleMsg(func_name) == <<func_name, ": FEM object pointer has null FEM handle">>

\* the capsules a Python caller can still pass to the binding
Capsules == {f \in 1..Len(fems) : fems[f].capsule}

Call(op, f, arg, n, called, rc, out) ==
    [op |-> op, f |-> f, arg |-> arg, n |-> n, called |-> called, rc |-> rc,
     out |-> out, raised |-> FALSE, exc |-> <<>>]

Raise(op, f, arg, n, called, exc) ==
    [op |-> op, f |-> f, arg |-> arg, n |-> n, called |-> called, rc |-> 0,
     out |-> <<>>, raised |-> TRUE, exc |-> exc]

NoFail == [kind |-> "none", arg |-> 0, code |-> 0]

----------------------------------------------------------------------------
(* The calls a run draws from.  Spec is about the handles and the error    *)
(* channel: it draws few parameter values.  SpecStore is about the         *)
(* parameter store: one caller with one handle, drawing many values.       *)

Garbage == {0, 77}
Chips == {0}
Handles == 1..MaxFems

FemIds == {-1, 0, 5}
ParamIds == {7}
Counts == {1}
CmdIds == {1, 9999}
Values == {PyList(<<ItemInt(1), ItemInt(2)>>)}

StoreFemIds == {5}
StoreParamIds == {7, INT_MAX}
StoreCounts == 0..3
StoreCmdIds == {1, 9999}
Items == {ItemInt(1), ItemInt(2)}
Lists == UNION {[1..n -> Items] : n \in 0..MaxLen}
BadLists == {<<ItemStr>>, <<ItemInt(1), ItemStr>>}
StoreValues == {PyInt(3), PyStr} \cup {PyList(l) : l \in Lists \cup BadLists}

ErrFemIds == {-12, -1, 5}
ErrCmdIds == (-1..8) \cup {9999}

----------------------------------------------------------------------------
Init ==
    /\ int_params = <<>>
    /\ error_string_ = <<>>
    /\ error_code_ = 0
    /\ clients = [a \in 1..MaxFems |-> [alive |-> FALSE, id_ |-> 0]]
    /\ fems = <<>>
    /\ last = Call("none", 0, 0, 0, FALSE, 0, <<>>)
    /\ written = <<>>
    /\ writer = <<>>
    /\ lastFail = NoFail

\* fem_api.initialise(id).  The Fem structure of a failed call is never freed
\* and never reachable again; it is not kept in fems.
_initialise(id) ==
    /\ Len(fems) < MaxFems
    /\ \E addr \in FreeAddrs(clients) :
         LET r == femInitialise(clients, error_code_, error_string_, id, addr) IN
         /\ clients' = r.clients
         /\ error_code_' = r.code
         /\ error_string_' = r.str
         /\ IF r.handle = NULL
            THEN /\ fems' = fems
                 /\ last' = Raise("initialise", 0, id, 0, TRUE, r.str)
                 /\ lastFail' = [kind |-> "initialise", arg |-> id,
                                 code |-> ClientCtor(id).which]
            ELSE /\ fems' = Append(fems, [handle |-> r.handle, femNumber |-> id,
                                          capsule |-> TRUE])
                 /\ last' = Call("initialise", Len(fems) + 1, id, 0, TRUE, r.handle, <<>>)
                 /\ lastFail' = lastFail
    /\ UNCHANGED <<int_params, written, writer>>

\* fem_api.get_id(handle)
_get_id(f) ==
    /\ f \in Capsules
    /\ IF ~ValidHandle(fems[f])
       THEN last' = Raise("get_id", f, 0, 0, FALSE, NullHandleMsg("get_id"))
       ELSE last' = Call("get_id", f, 0, 0, TRUE, femGetId(clients, fems[f].handle), <<>>)
    /\ UNCHANGED <<int_params, error_string_, error_code_, clients, fems, written, writer, lastFail>>

\* fem_api.get_int(handle, chip_id, param_id, size)
_get_int(f, chip_id, param_id, size) ==
    /\ f \in Capsules
    /\ IF ~ValidHandle(fems[f])
       THEN last' = Raise("get_int", f, param_id, size, FALSE, NullHandleMsg("get_int"))
       ELSE \E ok \in MallocOk(size) :
            IF ~ok
            THEN last' = Raise("get_int", f, param_id, size, FALSE,
                               <<"get_int: unable to allocate space for ">>
                                 \o Decimal(size) \o <<" integer values">>)
            ELSE \E over \in [OverRead(int_params, param_id, size) -> Garbage] :
                 LET r == femGetInt(int_params, param_id, size, over) IN
                 last' = Call("get_int", f, param_id, size, TRUE, r.rc,
                              IF r.rc = FEM_RTN_OK THEN r.value ELSE <<>>)
    /\ UNCHANGED <<int_params, error_string_, error_code_, clients, fems, written, writer, lastFail>>

\* the size _set_int derives from values_obj: 1 for an int, the length for a
\* list, -1 for anything else ("not int or list")
SetSize(values_obj) ==
    IF PyInt_Check(values_obj) THEN 1
    ELSE IF PyList_Check(values_obj) THEN Len(values_obj.items)
    ELSE -1

\* the buffer _set_int fills: "if (size == 1) *value_ptr = PyInt_AsLong(values_obj)"
\* converts values_obj itself, the list included when it has one element
SetBuffer(values_obj, size) ==
    IF size = 1 THEN <<PyInt_AsLong(values_obj)>>
    ELSE [i \in 1..size |-> PyInt_AsLong(values_obj.items[i])]

\* the loop over the list finds an element that is no integer
SetNonInteger(values_obj, size) ==
    /\ size # 1
    /\ \E i \in 1..size : ~PyInt_Check(values_obj.items[i])

\* a TypeError is pending when the call returns (the conversion of the size-1 case)
SetPending(values_obj, size) == size = 1 /\ ~PyInt_Check(values_obj)

\* fem_api.set_int(handle, chip_id, param_id, values_obj)
_set_int(f, chip_id, param_id, values_obj) ==
    LET size == SetSize(values_obj) IN
    /\ f \in Capsules
    /\ IF ~ValidHandle(fems[f])
       THEN /\ last' = Raise("set_int", f, param_id, 0, FALSE, NullHandleMsg("set_int"))
            /\ UNCHANGED <<int_params, written, writer>>
       ELSE IF size < 0
       THEN /\ last' = Raise("set_int", f, param_id, 0, FALSE,
                             <<"set_int: specified value(s) not int or list">>)
            /\ UNCHANGED <<int_params, written, writer>>
       ELSE \E ok \in MallocOk(size) :
            IF ~ok
            THEN /\ last' = Raise("set_int", f, param_id, size, FALSE,
                                  <<"set_int: unable to allocate space for ">>
                                    \o Decimal(size) \o <<" integer values">>)
                 /\ UNCHANGED <<int_params, written, writer>>
            ELSE IF SetNonInteger(values_obj, size)
            THEN /\ last' = Raise("set_int", f, param_id, size, FALSE,
                                  <<"set_int: non-integer value specified">>)
                 /\ UNCHANGED <<int_params, written, writer>>
            ELSE LET value == SetBuffer(values_obj, size)
                     r == femSetInt(int_params, param_id, size, value)
                 IN /\ int_params' = r.params
                    /\ written' = [q \in (DOMAIN written) \cup {param_id} |->
                                     IF q = param_id THEN value ELSE written[q]]
                    /\ writer' = [q \in (DOMAIN writer) \cup {param_id} |->
                                    IF q = param_id THEN f ELSE writer[q]]
                    /\ last' = IF SetPending(values_obj, size)
                               THEN [Raise("set_int", f, param_id, size, TRUE, <<"TypeError">>)
                                       EXCEPT !.rc = r.rc, !.out = value]
                               ELSE Call("set_int", f, param_id, size, TRUE, r.rc, value)
    /\ UNCHANGED <<error_string_, error_code_, clients, fems, lastFail>>

\* fem_api.cmd(handle, chipId, cmdId)
_cmd(f, chipId, cmdId) ==
    /\ f \in Capsules
    /\ IF ~ValidHandle(fems[f])
       THEN /\ last' = Raise("cmd", f, cmdId, 0, FALSE, NullHandleMsg("cmd"))
            /\ UNCHANGED <<error_string_, error_code_, lastFail>>
       ELSE LET r == femCmd(error_code_, error_string_, cmdId) IN
            /\ error_code_' = r.code
            /\ error_string_' = r.str
            /\ last' = Call("cmd", f, cmdId, 0, TRUE, r.rc, <<>>)
            /\ lastFail' = IF r.rc = FEM_RTN_OK THEN lastFail
                           ELSE [kind |-> "cmd", arg |-> cmdId, code |-> r.rc]
    /\ UNCHANGED <<int_params, clients, fems, written, writer>>

\* fem_api.close(handle)
_close(f) ==
    /\ f \in Capsules
    /\ IF ~ValidHandle(fems[f])
       THEN /\ last' = Raise("close", f, 0, 0, FALSE, NullHandleMsg("close"))
            /\ UNCHANGED <<clients, fems>>
       ELSE /\ clients' = femClose(clients, fems[f].handle)
            /\ fems' = [fems EXCEPT ![f] = CloseFem(fems[f])]
            /\ last' = Call("close", f, 0, 0, TRUE, 0, <<>>)
    /\ UNCHANGED <<int_params, error_string_, error_code_, written, writer, lastFail>>

\* the capsule destructor, run when the last reference to the capsule goes
_del(f) ==
    /\ f \in Capsules
    /\ clients' = IF fems[f].handle # NULL THEN femClose(clients, fems[f].handle)
                  ELSE clients
    /\ fems' = [fems EXCEPT ![f].capsule = FALSE]
    /\ last' = Call("_del", f, 0, 0, fems[f].handle # NULL, 0, <<>>)
    /\ UNCHANGED <<int_params, error_string_, error_code_, written, writer, lastFail>>

----------------------------------------------------------------------------
Next ==
    \/ \E id \in FemIds : _initialise(id)
    \/ \E f \in Handles : _get_id(f)
    \/ \E f \in Handles, c \in Chips, p \in ParamIds, n \in Counts : _get_int(f, c, p, n)
    \/ \E f \in Handles, c \in Chips, p \in ParamIds, v \in Values : _set_int(f, c, p, v)
    \/ \E f \in Handles, c \in Chips, id \in CmdIds : _cmd(f, c, id)
    \/ \E f \in Handles : _close(f)
    \/ \E f \in Handles : _del(f)

Spec == Init /\ [][Next]_vars

\* one caller that initialises once and works on that handle
NextStore ==
    \/ \E id \in StoreFemIds : fems = <<>> /\ _initialise(id)
    \/ \E f \in Handles : _get_id(f)
    \/ \E f \in Handles, c \in Chips, p \in StoreParamIds, n \in StoreCounts :
         _get_int(f, c, p, n)
    \/ \E f \in Handles, c \in Chips, p \in StoreParamIds, v \in StoreValues :
         _set_int(f, c, p, v)
    \/ \E f \in Handles, c \in Chips, id \in StoreCmdIds : _cmd(f, c, id)
    \/ \E f \in Handles : _close(f)
    \/ \E f \in Handles : _del(f)

SpecStore == Init /\ [][NextStore]_vars

\* one caller and one handle, drawing many commands and identifiers
NextErr ==
    \/ \E id \in ErrFemIds : fems = <<>> /\ _initialise(id)
    \/ \E f \in Handles : _get_id(f)
    \/ \E f \in Handles, c \in Chips, p \in ParamIds, n \in Counts : _get_int(f, c, p, n)
    \/ \E f \in Handles, c \in Chips, p \in ParamIds, v \in Values : _set_int(f, c, p, v)
    \/ \E f \in Handles, c \in Chips, id \in ErrCmdIds : _cmd(f, c, id)
    \/ \E f \in Handles : _close(f)
    \/ \E f \in Handles : _del(f)

SpecErr == Init /\ [][NextErr]_vars

----------------------------------------------------------------------------
(* Properties *)

\* C1: initialise with an identifier < 0 fails and produces no handle:
\* femInitialise returns NULL, the binding raises instead of returning a
\* capsule, and the call leaves the parameter store, the client objects and
\* the capsules as they were.
C1_InitialiseNegativeFails ==
    /\ [](last.op = "initialise" /\ last.arg < 0
            => last.raised /\ last.rc = NULL /\ last.f = 0)
    /\ [][last'.op = "initialise" /\ last'.arg < 0
            => /\ int_params' = int_params
               /\ clients' = clients
               /\ fems' = fems]_vars

C1_Witness ==
    /\ last.op = "initialise" /\ last.arg = -1 /\ last.raised
    /\ 7 \in DOMAIN int_params
    /\ \E f \in Capsules : fems[f].handle # NULL /\ clients[fems[f].handle].alive

\* C2: initialise with an identifier >= 0 returns a non-null handle, get_id on
\* an open handle returns the identifier that handle was initialised with, and
\* that is so in every state in which the handle is open, whatever was called
\* in between.
C2_IdentifierKept ==
    /\ last.op = "initialise" /\ last.arg >= 0
         => /\ ~last.raised
            /\ last.rc # NULL
            /\ last.f \in Capsules
            /\ fems[last.f].handle = last.rc
            /\ fems[last.f].femNumber = last.arg
    /\ \A f \in Capsules :
         fems[f].handle # NULL
           => /\ clients[fems[f].handle].alive
              /\ femGetId(clients, fems[f].handle) = fems[f].femNumber
    /\ last.op = "get_id" /\ ~last.raised /\ last.f \in Capsules
         => last.rc = fems[last.f].femNumber

C2_Witness ==
    /\ last.op = "get_id" /\ ~last.raised /\ last.rc = 5
    /\ \E g \in Capsules : g # last.f /\ fems[g].femNumber = 0 /\ fems[g].handle = NULL
    /\ 7 \in DOMAIN int_params
    /\ lastFail.kind = "cmd"

\* C3: round trip at the core API: a femGetInt of a parameter id for as many
\* values as the last femSetInt of that id stored returns FEM_RTN_OK and
\* exactly the values that femSetInt was handed, in the same order.
C3_RoundTrip ==
    last.op = "get_int" /\ last.called /\ last.arg \in DOMAIN written
      /\ last.n = Len(written[last.arg])
      => last.rc = FEM_RTN_OK /\ last.out = written[last.arg]

C3_Witness ==
    /\ last.op = "get_int" /\ last.called /\ last.arg = 7 /\ last.n = 2
    /\ 7 \in DOMAIN written /\ written[7] = <<2, 1>>
    /\ last.out = <<2, 1>>

\* the value a 32-bit int holds for the sum id + i (0 <= i): the sum itself
\* up to INT_MAX, and the sum less 2^32 above it
WrappedSum(id, i) ==
    IF id <= INT_MAX - i THEN id + i ELSE INT_MIN + (i - (INT_MAX - id) - 1)

\* C4 as stated: a get of a parameter id never written returns FEM_RTN_OK and
\* n values, the one at position i being pid + i.
C4_DefaultReadExact ==
    last.op = "get_int" /\ last.called /\ last.arg \notin DOMAIN written
      => /\ last.rc = FEM_RTN_OK
         /\ Len(last.out) = last.n
         /\ \A i \in 0..(last.n - 1) :
              last.out[i + 1] >= last.arg /\ last.out[i + 1] - last.arg = i

\* C4, amended: a get of a parameter id never written returns FEM_RTN_OK and
\* n values, the one at position i being pid + i as a 32-bit int: pid + i
\* when that is at most INT_MAX, and pid + i - 2^32 when it is more.
C4_DefaultReadWrapped ==
    last.op = "get_int" /\ last.called /\ last.arg \notin DOMAIN written
      => /\ last.rc = FEM_RTN_OK
         /\ Len(last.out) = last.n
         /\ \A i \in 0..(last.n - 1) : last.out[i + 1] = WrappedSum(last.arg, i)

C4_Witness ==
    /\ last.op = "get_int" /\ last.called /\ last.arg = 7 /\ last.n = 3
    /\ 7 \notin DOMAIN written /\ INT_MAX \in DOMAIN written
    /\ last.out = <<7, 8, 9>>

\* C5: a command returns FEM_RTN_OK exactly for the command ids 1..7; for any
\* other id it returns FEM_RTN_UNKNOWNOPID and leaves in the error channel a
\* message that names the id.  A command that returns FEM_RTN_OK changes
\* neither the parameter store nor the last-error pair.
C5_CommandClosure ==
    /\ [](last.op = "cmd" /\ last.called
            => /\ (last.rc = FEM_RTN_OK <=> last.arg \in 1..7)
               /\ last.rc # FEM_RTN_OK
                    => /\ last.rc = FEM_RTN_UNKNOWNOPID
                       /\ Contains(error_string_, Decimal(last.arg)))
    /\ [][last'.op = "cmd" /\ last'.called /\ last'.rc = FEM_RTN_OK
            => /\ int_params' = int_params
               /\ error_string_' = error_string_
               /\ error_code_' = error_code_]_vars

C5_Witness ==
    /\ last.op = "cmd" /\ last.called /\ last.arg = 9999
    /\ last.rc = FEM_RTN_UNKNOWNOPID
    /\ error_string_ = <<"femCmd: illegal command ID: ", "9", "9", "9", "9">>

\* the binding refused the call because the wrapped handle is NULL
HandleError(call) ==
    /\ call.raised
    /\ ~call.called
    /\ call.exc = <<call.op, ": FEM object pointer has null FEM handle">>

HandleOps == {"get_id", "get_int", "set_int", "cmd", "close"}

\* C6: a successful close leaves the handle closed; every get_id, get_int,
\* set_int, cmd or close on a closed handle raises an error without calling
\* into the core API and without changing a client object or the parameter
\* store; on an open handle none of them raises that error.
C6_ClosedHandle ==
    /\ [](last.op = "close" /\ ~last.raised => fems[last.f].handle = NULL)
    /\ [][last'.op \in HandleOps /\ last'.f \in Capsules
            => IF fems[last'.f].handle = NULL
               THEN /\ HandleError(last')
                    /\ clients' = clients
                    /\ int_params' = int_params
               ELSE ~HandleError(last')]_vars

C6_Witness ==
    /\ last.op = "set_int" /\ HandleError(last)
    /\ fems[last.f].handle = NULL
    /\ \E g \in Capsules : fems[g].handle # NULL
    /\ int_params = <<>>

\* C7: when initialise with a negative identifier has failed, the last-error
\* code is the non-zero code of the exception and the last-error message
\* holds the identifier in decimal; the message the binding raises, read
\* right after femInitialise returned, is already that message.
C7_InitialiseErrorState ==
    last.op = "initialise" /\ last.raised
      => /\ last.arg < 0
         /\ error_code_ # 0
         /\ error_code_ = IllegalIdCode
         /\ Contains(error_string_, Decimal(last.arg))
         /\ last.exc = error_string_

C7_Witness ==
    /\ last.op = "initialise" /\ last.raised /\ last.arg = -12
    /\ error_code_ = 30000
    /\ error_string_ = <<"Error trying to initialise FEM id ", "-", "1", "2",
                         ": ", "Illegal ID specified">>

\* C8 as stated: the last-error code and message are those of the most recent
\* failing call: for a failed initialise the exception's code and the
\* initialise message, for an unknown command its status and the command
\* message.
C8_LastErrorIsLastFailure ==
    lastFail.kind # "none"
      => /\ error_code_ = lastFail.code
         /\ error_string_ = IF lastFail.kind = "initialise"
                            THEN InitMsg(lastFail.arg, "Illegal ID specified")
                            ELSE CmdMsg(lastFail.arg)

\* C9: femSetInt returns FEM_RTN_OK and leaves under the parameter id exactly
\* the values it was handed, whatever was stored there before, and leaves
\* every other entry of the store as it was.
C9_SetOverwrites ==
    [][last'.op = "set_int" /\ last'.called
         => /\ last'.rc = FEM_RTN_OK
            /\ DOMAIN int_params' = (DOMAIN int_params) \cup {last'.arg}
            /\ int_params'[last'.arg] = last'.out
            /\ \A q \in (DOMAIN int_params) \ {last'.arg} :
                 int_params'[q] = int_params[q]]_vars

C9_Witness ==
    /\ last.op = "set_int" /\ last.called /\ last.arg = 7 /\ last.out = <<3>>
    /\ int_params[7] = <<3>>
    /\ INT_MAX \in DOMAIN int_params /\ int_params[INT_MAX] = <<1, 2>>

\* C10 as stated: a get of a stored parameter id returns the first count
\* stored values when count is at most the stored length, and otherwise
\* fails, with no values written.
C10_GetBoundsChecked ==
    last.op = "get_int" /\ last.called /\ last.arg \in DOMAIN int_params
      => IF last.n <= Len(int_params[last.arg])
         THEN last.rc = FEM_RTN_OK /\ last.out = SubSeq(int_params[last.arg], 1, last.n)
         ELSE last.rc # FEM_RTN_OK /\ last.out = <<>>

\* C11: the parameter store is process-wide and outlives handles: a get_int
\* through any open handle returns the values last written for that id,
\* whichever handle wrote them and whether or not that handle is still open;
\* initialise (succeeding or failing), close and the capsule destructor leave
\* the store as it was.
C11_StoreOutlivesHandles ==
    /\ [](last.op = "get_int" /\ last.called /\ last.arg \in DOMAIN written
            /\ last.n <= Len(written[last.arg])
            => /\ last.rc = FEM_RTN_OK
               /\ last.out = SubSeq(written[last.arg], 1, last.n))
    /\ [](DOMAIN int_params = DOMAIN written)
    /\ [][last'.op \in {"initialise", "close", "_del"}
            => int_params' = int_params]_vars

\* the reader is a second handle, the writer is closed, and no client object
\* holds the writer's identifier any more: the reader's object was built in
\* the storage the writer's object had, so after the writer was closed
C11_Witness ==
    /\ last.op = "get_int" /\ last.called /\ last.arg = 7 /\ last.out = <<1>>
    /\ 7 \in DOMAIN writer /\ writer[7] = 1 /\ last.f = 2
    /\ fems[1].handle = NULL /\ fems[1].femNumber = 5
    /\ \A a \in DOMAIN clients : clients[a].id_ # 5

\* C12 as stated, for two calls with nothing in between: a get_int that
\* repeats the get_int before it (same parameter id, same count) returns the
\* same status and values, and leaves the store as it was.
C12_GetIdempotent ==
    [][(last.op = "get_int" /\ last.called
          /\ last'.op = "get_int" /\ last'.called
          /\ last'.arg = last.arg /\ last'.n = last.n)
         => /\ last'.rc = last.rc
            /\ last'.out = last.out
            /\ int_params' = int_params]_vars

\* the capsules whose handle has not been closed
OpenCapsules == {f \in Capsules : fems[f].handle # NULL}

\* C13: handles from distinct initialise calls are distinct and independent,
\* also when their identifiers are equal: two open handles never wrap the
\* same client object, every open handle wraps a live object that reports the
\* identifier it was initialised with, a close changes no other open handle
\* and no client object but its own, and get_id, get_int, set_int and cmd on
\* an open handle do not fail for the handle.
C13_IndependentHandles ==
    /\ [](\A f \in OpenCapsules, g \in OpenCapsules :
            f # g => fems[f].handle # fems[g].handle)
    /\ [](\A f \in OpenCapsules :
            /\ clients[fems[f].handle].alive
            /\ femGetId(clients, fems[f].handle) = fems[f].femNumber)
    /\ [][last'.op = "close" /\ ~last'.raised
            => \A g \in OpenCapsules \ {last'.f} :
                 /\ fems'[g] = fems[g]
                 /\ clients'[fems[g].handle] = clients[fems[g].handle]]_vars
    /\ [](last.op \in {"get_id", "get_int", "set_int", "cmd"}
            /\ last.f \in OpenCapsules
            => ~HandleError(last) /\ last.called)

C13_Witness ==
    /\ Len(fems) = 2 /\ fems[1].femNumber = 5 /\ fems[2].femNumber = 5
    /\ fems[1].handle = NULL /\ fems[1].capsule
    /\ last.op = "get_id" /\ last.f = 2 /\ ~last.raised /\ last.rc = 5

\* the integers of a list of integers, in order
IntsOf(values_obj) == [i \in 1..Len(values_obj.items) |-> values_obj.items[i].v]

AllInts(values_obj) ==
    \A i \in 1..Len(values_obj.items) : PyInt_Check(values_obj.items[i])

\* C14 as stated: a set_int on an open handle with a non-empty list of
\* integers, one element included, raises nothing, returns OK and leaves
\* exactly the list's integers under the parameter id; with a bare integer v
\* it leaves the one-element sequence of v; with a list that has a
\* non-integer element it raises an error and leaves the store unchanged.
C14_BindingRoundTrip ==
    [][\A f \in Handles, p \in StoreParamIds, v \in StoreValues :
         (f \in Capsules /\ ValidHandle(fems[f]) /\ _set_int(f, 0, p, v))
         => /\ (PyList_Check(v) /\ v.items # <<>> /\ AllInts(v))
                => (/\ ~last'.raised
                    /\ last'.rc = FEM_RTN_OK
                    /\ p \in DOMAIN int_params'
                    /\ int_params'[p] = IntsOf(v))
            /\ PyInt_Check(v)
                => (/\ ~last'.raised
                    /\ p \in DOMAIN int_params'
                    /\ int_params'[p] = <<v.v>>)
            /\ (PyList_Check(v) /\ ~AllInts(v))
                => (last'.raised /\ int_params' = int_params)]_vars

\* C15: a client object is released at most once.  A close or a capsule
\* destruction that finds the wrapped handle NULL calls no femClose and
\* changes no client object; one that finds a handle calls femClose on an
\* object that is still alive, ends that object and no other, and an explicit
\* close leaves the handle NULL.  A destroyed capsule is passed to no later
\* call.
C15_ReleasedOnce ==
    [][(last'.op \in {"close", "_del"} /\ last'.f \in Capsules)
         => LET h == fems[last'.f].handle IN
            IF h = NULL
            THEN ~last'.called /\ clients' = clients
            ELSE /\ last'.called
                 /\ clients[h].alive
                 /\ ~clients'[h].alive
                 /\ \A a \in (DOMAIN clients) \ {h} : clients'[a] = clients[a]
                 /\ last'.op = "close" => fems'[last'.f].handle = NULL
                 /\ last'.op = "_del" => last'.f \notin {g \in 1..Len(fems') : fems'[g].capsule}]_vars

\* one capsule closed and then destroyed, the other destroyed without a close
C15_Witness ==
    /\ Len(fems) = 2
    /\ fems[1].handle = NULL /\ ~fems[1].capsule
    /\ fems[2].handle # NULL /\ ~fems[2].capsule
    /\ last.op = "_del" /\ last.f = 2 /\ last.called
    /\ \A a \in DOMAIN clients : ~clients[a].alive

====
